---- MODULE Spec2Model ----
(***************************************************************************)
(* Model of the LINE webhook bot of src/server.js: the /webhook handler,   *)
(* its session rows in the diagnosis_logs table, the in-memory rate        *)
(* limiter, the field extractor and the generation client.                 *)
(*                                                                         *)
(* One user is modelled (every statement checked is about one user's       *)
(* session).  A webhook request runs in a request slot; JavaScript is      *)
(* single threaded, so the code between two awaits is one atomic step and  *)
(* each action below is "an awaited call completes, with some outcome, and *)
(* the handler runs on to its next await".                                 *)
(*                                                                         *)
(* Encodings.  extra_credits is kept in tenths (2 -> 20, 1 -> 10,          *)
(* 0.5 -> 5, 0.3 -> 3, 0 -> 0) because TLC has no fractions.  A text is a  *)
(* sequence of character classes: "m1".."m5" are the markers (1)..(5),     *)
(* "col" a half- or full-width colon, "nl" a line break, "sp" any other    *)
(* white space, "c" an ordinary character, "lbl" a label word such as      *)
(* the name label, and "P", "G", "S" stand for the three fixed phrases     *)
(* (the present phrase, the guidance phrase, the start phrase) as a whole. *)
(* Columns no branch reads (lucky_advice, diagnosis_number, created_at,    *)
(* updated_at) are left out of the rows.                                   *)
(*                                                                         *)
(* src/server.js holds the current server in lines 1-1112; lines 1113-1253 *)
(* are an earlier, complete server (its own requires, app, handler,        *)
(* extractUserData, callGPT and replyText).  The model is of the current   *)
(* server.                                                                 *)
(***************************************************************************)
EXTENDS Integers, Sequences, FiniteSets, TLC

(***************************************************************************)
(* Bounds of the model.                                                    *)
(***************************************************************************)
NumReq == 2

\* events of the full flow: its four messages and the events after them
MaxFlowEvents == 7

MaxBody == 1

MaxEvents == 3

\* steps of the clock, of half a rate-limit window each
MaxTicks == 2

\* events of one webhook body, and events in all, where bodies of several
\* events are delivered
MaxBodyLen == 2

MaxBodyEvents == 2

\* characters of a text handed to extractUserData on its own
MaxTextLen == 5

(***************************************************************************)
(* Program constants.                                                      *)
(***************************************************************************)
RATE_LIMIT_WINDOW == 60000

RATE_LIMIT_MAX == 10

maxRetries == 3

NEED_INPUT == 20

PROFILE_DONE == 10

TAROT_WAIT == 5

OFFER_SHOWN == 3

CLOSED_CREDITS == 0

\* a cap that lets a third guidance reply through
MAX_INPUT_ERRORS_OffByOne == 2 + 1

MAX_INPUT_ERRORS == 2

TickMs == RATE_LIMIT_WINDOW \div 2

Req == 1..NumReq

NULL == <<"null">>

NoRow == [none |-> TRUE]

\* no call of callGPT is followed attempt by attempt
NoCall == [pc |-> "none"]

\* a null integer column (input_error_count before its first update)
NULL_COUNT == 0 - 1

GENERATED == <<"generated">>

GPT_ERROR_MSG == <<"gpt_error_message">>

(***************************************************************************)
(* Texts.                                                                  *)
(***************************************************************************)
IsSpace(ch) == ch \in {"sp", "nl"}

IsMarker(ch) == ch \in {"m1", "m2", "m3", "m4", "m5"}

\* the character classes a text is made of
Token ==
  {"m1", "m2", "m3", "m4", "m5", "col", "nl", "sp", "c", "lbl", "P", "G", "S"}

TrimLeft[s \in Seq(Token)] ==
  IF s # <<>> /\ IsSpace(Head(s)) THEN TrimLeft[Tail(s)] ELSE s

TrimRight[s \in Seq(Token)] ==
  IF s # <<>> /\ IsSpace(s[Len(s)]) THEN TrimRight[SubSeq(s, 1, Len(s) - 1)] ELSE s

\* String.prototype.trim
Trim(s) == TrimRight[TrimLeft[s]]

\* index of the first occurrence of ch in s at or after position from, or Len(s)+1
RECURSIVE IndexFrom(_, _, _)
IndexFrom(s, ch, from) ==
  IF from > Len(s) THEN Len(s) + 1
  ELSE IF s[from] = ch THEN from
  ELSE IndexFrom(s, ch, from + 1)

\* first position at or after from that holds no white space, or Len(s)+1
RECURSIVE SkipSpace(_, _)
SkipSpace(s, from) ==
  IF from <= Len(s) /\ IsSpace(s[from]) THEN SkipSpace(s, from + 1) ELSE from

\* value.replace(/^(label)[:：]?\s*/i, ''): a leading label word, an optional
\* colon after it and the white space after that are removed
StripLabel[v \in Seq(Token)] ==
  IF v # <<>> /\ Head(v) = "lbl"
  THEN LET a == IF Len(v) >= 2 /\ v[2] = "col" THEN 3 ELSE 2
           b == SkipSpace(v, a)
       IN  SubSeq(v, b, Len(v))
  ELSE v

\* an extractor that does not take the colon after the marker
FieldOf_NoColon(text, marker) ==
  LET p == IndexFrom(text, marker, 1)
  IN  IF p > Len(text) THEN NULL
      ELSE LET q  == SkipSpace(text, p + 1)
               e  == IndexFrom(text, "nl", q)
               value == StripLabel[Trim(SubSeq(text, q, e - 1))]
           IN  IF value = <<>> THEN NULL ELSE value

\* text.match(/M.*?[:：]?\s*(.*?)(?=\n|$)/s) and the clean-up of m[1]:
\* the lazy .*? after the marker matches nothing, the optional colon and the
\* greedy \s* (which also eats line breaks) are taken, and the lazy group
\* runs to the first line break at or after its start, or to the end.
FieldOf(text, marker) ==
  LET p == IndexFrom(text, marker, 1)
  IN  IF p > Len(text) THEN NULL
      ELSE LET p1 == IF p + 1 <= Len(text) /\ text[p + 1] = "col" THEN p + 2 ELSE p + 1
               q  == SkipSpace(text, p1)
               e  == IndexFrom(text, "nl", q)
               value == StripLabel[Trim(SubSeq(text, q, e - 1))]
           IN  IF value = <<>> THEN NULL ELSE value

extractUserData(text) ==
  [name      |-> FieldOf(text, "m1"),
   birthdate |-> FieldOf(text, "m2"),
   birthtime |-> FieldOf(text, "m3"),
   mbti      |-> FieldOf(text, "m4"),
   gender    |-> FieldOf(text, "m5")]

\* const hasAllInput = data.name && data.birthdate && data.gender
hasAllInput(data) ==
  data.name # NULL /\ data.birthdate # NULL /\ data.gender # NULL

\* a format test that takes every text for a labeled form
hasNumberFormat_Always(text) == TRUE

\* /①|②|③|④|⑤/.test(text)
hasNumberFormat(text) == \E i \in 1..Len(text) : IsMarker(text[i])

PRESENT_TXT == <<"P">>

GUIDE_TXT == <<"G">>

START_TXT == <<"S">>

\* The raw message texts the platform delivers in this model: a complete
\* form, a form without the gender line, the two trigger phrases (one with
\* leading white space), the present phrase followed by one more character
\* and a free text.  The start phrase is handled like the free text in every
\* phase and is left out.
RawTexts ==
  { <<"m1", "c", "nl", "m2", "c", "nl", "m5", "c">>,
    <<"m1", "c", "nl", "m2", "c">>,
    <<"sp", "P">>,
    <<"G">>,
    <<"P", "c">>,
    <<"c">> }

Texts == { Trim(t) : t \in RawTexts }

(***************************************************************************)
(* State.                                                                  *)
(*   rows       the diagnosis_logs rows of the user, in insertion order    *)
(*   rateLimit  rateLimit.get(userId): the time stamps of counted requests *)
(*   now        Date.now()                                                 *)
(*   req        the request slots: position, body, locals of the handler   *)
(*   delivered  number of events delivered so far; a new message takes its *)
(*              message id from it                                         *)
(* History variables, written only, never read by the handler:             *)
(*   genProfile, genTarot  callGPT invocations of each kind so far         *)
(*   guidanceSent          missing-fields guidance messages the platform   *)
(*                         has accepted so far                             *)
(*   passed                the times at which checkRateLimit has let an    *)
(*                         event of the user pass                          *)
(* The call of callGPT that is followed attempt by attempt (SpecGpt):      *)
(*   gptCall    its position, the outcomes of its attempts, what it did    *)
(***************************************************************************)
VARIABLES rows, rateLimit, now, req, delivered, genProfile, genTarot,
          guidanceSent, passed, gptCall

vars == <<rows, rateLimit, now, req, delivered, genProfile, genTarot,
          guidanceSent, passed, gptCall>>

\* the row getOrCreateUserState inserts; columns it does not name are null
NewRow ==
  [extra_credits |-> NEED_INPUT, session_closed |-> FALSE,
   input_error_count |-> NULL_COUNT,
   name |-> NULL, birthdate |-> NULL, birthtime |-> NULL, gender |-> NULL,
   mbti |-> NULL, self_analysis_result |-> NULL,
   tarot_concern |-> NULL, tarot_result |-> NULL]

\* the per-event locals and the record of what the handling of the current
\* event has done so far
FreshEvent ==
  [text |-> <<>>, userState |-> NoRow, data |-> extractUserData(<<>>),
   messages |-> <<>>, ans |-> NULL, selErr |-> "none", sent |-> <<>>, inserts |-> 0,
   updates |-> 0, gpt |-> 0, arrivedClosed |-> FALSE, readClosed |-> FALSE]

IdleReq ==
  [pc |-> "idle", body |-> <<>>, idx |-> 0, status |-> 0, used |-> {},
   signature |-> "none", ev |-> FreshEvent]

\* a limiter that lets one more request through
checkRateLimit_OneMore(userRequests, t) ==
  LET recentRequests == SelectSeq(userRequests, LAMBDA x : t - x < RATE_LIMIT_WINDOW)
  IN  IF Len(recentRequests) > RATE_LIMIT_MAX
      THEN [ok |-> FALSE, list |-> userRequests]
      ELSE [ok |-> TRUE, list |-> Append(recentRequests, t)]

\* filter + length test + push of checkRateLimit
checkRateLimit(userRequests, t) ==
  LET recentRequests == SelectSeq(userRequests, LAMBDA x : t - x < RATE_LIMIT_WINDOW)
  IN  IF Len(recentRequests) >= RATE_LIMIT_MAX
      THEN [ok |-> FALSE, list |-> userRequests]
      ELSE [ok |-> TRUE, list |-> Append(recentRequests, t)]

\* a signature check that lets every request in
verifyLineSignature_AcceptAll(expected, signature) == TRUE

\* hash === signature, with the two hashes taken as given
verifyLineSignature(expected, signature) == expected = signature

\* an unlock update that writes the extra_credits of the next step
creditUpdate_WrongPhase(row) == [row EXCEPT !.extra_credits = OFFER_SHOWN]

\* the updates, applied to one row
creditUpdate(row) == [row EXCEPT !.extra_credits = TAROT_WAIT]

tarotUpdate(row, text, tarotAns) ==
  [row EXCEPT !.tarot_concern = text, !.tarot_result = tarotAns,
              !.extra_credits = OFFER_SHOWN]

\* a final update that forgets session_closed
finalUpdate_NoClose(row) == [row EXCEPT !.extra_credits = CLOSED_CREDITS]

finalUpdate(row) ==
  [row EXCEPT !.extra_credits = CLOSED_CREDITS, !.session_closed = TRUE]

analysisUpdate(row, data, analysisReport) ==
  [row EXCEPT !.name = data.name, !.birthdate = data.birthdate,
              !.birthtime = data.birthtime, !.gender = data.gender,
              !.mbti = data.mbti, !.self_analysis_result = analysisReport,
              !.extra_credits = PROFILE_DONE, !.session_closed = FALSE,
              !.input_error_count = 0]

countUpdate(row, count) == [row EXCEPT !.input_error_count = count + 1]

\* The state when the modelled events begin: no request is in flight and
\* the table holds what the user's earlier messages left, that is no row, or
\* the row after each step of a flow in which every call succeeded, or the
\* closed row after a late tarot update.  The
\* rate limiter holds nothing (the earlier messages are older than the
\* window), or the user has just sent RATE_LIMIT_MAX - 1 free texts to a new
\* session (none of them is answered or changes the row).
CompleteForm == <<"m1", "c", "nl", "m2", "c", "nl", "m5", "c">>

RowNeedInput == NewRow

RowProfileDone == analysisUpdate(NewRow, extractUserData(CompleteForm), GENERATED)

RowTarotWait == creditUpdate(RowProfileDone)

RowOfferShown == tarotUpdate(RowTarotWait, <<"c">>, GENERATED)

RowClosed == finalUpdate(RowOfferShown)

\* a closed row that the update of a tarot handler still in flight at the
\* closing has rewritten (session_closed stays true, extra_credits is 0.3)
RowClosedRewritten == tarotUpdate(RowClosed, <<"c">>, GENERATED)

FlowRows ==
  {RowNeedInput, RowProfileDone, RowTarotWait, RowOfferShown, RowClosed,
   RowClosedRewritten}

Init ==
  /\ \/ /\ rows \in {<<>>} \cup {<<row>> : row \in FlowRows}
        /\ rateLimit = <<>>
     \/ /\ rows = <<RowNeedInput>>
        /\ rateLimit = [i \in 1..(RATE_LIMIT_MAX - 1) |-> 0]
  /\ passed = rateLimit
  /\ now = 0
  /\ req = [r \in Req |-> IdleReq]
  /\ delivered = 0
  /\ genProfile = 0
  /\ genTarot = 0
  /\ guidanceSent = 0
  /\ gptCall = NoCall

(***************************************************************************)
(* Webhook bodies.                                                         *)
(***************************************************************************)
EventChoices ==
  {[k |-> "nontext", text |-> <<>>]} \cup {[k |-> "text", text |-> t] : t \in RawTexts}

BodyChoices == UNION {[1..n -> EventChoices] : n \in 1..MaxBody}

\* the events of a new body; a message takes the next message id.  A
\* malformed event is a message event without its message object (it has a
\* reply token).
MkBody(ch) ==
  [i \in 1..Len(ch) |->
     IF ch[i].k = "nontext" THEN [type |-> "other", text |-> <<>>, id |-> 0]
     ELSE IF ch[i].k = "malformed" THEN [type |-> "malformed", text |-> <<>>, id |-> 0]
     ELSE [type |-> "text", text |-> ch[i].text, id |-> delivered + i]]

\* POST /webhook arrives in slot r with this x-line-signature header and
\* these events: signature check, 401 or JSON.parse and the event loop.  The
\* slot keeps the header it received.
Arrive(r, signature, ch) ==
  /\ req[r].pc = "idle"
  /\ IF ~verifyLineSignature("hash", signature)
     THEN /\ req' = [req EXCEPT ![r] =
                       [IdleReq EXCEPT !.status = 401, !.signature = signature]]
          /\ UNCHANGED delivered
     ELSE /\ req' = [req EXCEPT ![r] =
                       [IdleReq EXCEPT !.pc = "loop", !.body = MkBody(ch),
                                       !.signature = signature]]
          /\ delivered' = delivered + Len(ch)
  /\ UNCHANGED <<rows, rateLimit, passed, now, genProfile, genTarot,
                 guidanceSent, gptCall>>

\* A request with a new body arrives.  The slots are interchangeable: a
\* request takes the first idle one.
Receive(r) ==
  /\ \A q \in Req : q < r => req[q].pc # "idle"
  /\ \E signature \in {"hash", "forged"}, ch \in BodyChoices :
       /\ delivered + Len(ch) <= MaxEvents
       /\ Arrive(r, signature, ch)

\* The platform delivers again the body of a request that is still being
\* handled (same events, same message ids); the signature is valid again.
Redeliver(r, r2) ==
  /\ req[r].pc = "idle"
  /\ \A q \in Req : q < r => req[q].pc # "idle"
  /\ r2 # r
  /\ req[r2].pc # "idle"
  /\ delivered + Len(req[r2].body) <= MaxEvents
  /\ req' = [req EXCEPT ![r] = [IdleReq EXCEPT !.pc = "loop", !.body = req[r2].body,
                                               !.signature = "hash"]]
  /\ delivered' = delivered + Len(req[r2].body)
  /\ UNCHANGED <<rows, rateLimit, passed, now, genProfile, genTarot,
                 guidanceSent, gptCall>>

Tick ==
  /\ now < MaxTicks * TickMs
  /\ now' = now + TickMs
  /\ UNCHANGED <<rows, rateLimit, passed, req, delivered, genProfile, genTarot,
                 guidanceSent, gptCall>>

(***************************************************************************)
(* Helpers of the handler.                                                 *)
(***************************************************************************)
Ev(r) == req[r].body[req[r].idx]

SessionClosedNow == Len(rows) = 1 /\ rows[1].session_closed

HadEffect(e) == e.inserts + e.updates + e.gpt + Len(e.sent) > 0

\* supabase ... .select('*').eq('line_user_id', userId).single()
SingleResult(failed) ==
  IF failed THEN [data |-> NoRow, error |-> "OTHER"]
  ELSE IF Len(rows) = 1 THEN [data |-> rows[1], error |-> "none"]
  ELSE [data |-> NoRow, error |-> "PGRST116"]

\* getOrCreateUserState with every select error taken for "no row found"
AfterSelect_AnyErrorIsNoRow(selectError, existingUser) ==
  IF existingUser # NoRow THEN "return_existing" ELSE "insert"

\* getOrCreateUserState, after the select: what it does next
AfterSelect(selectError, existingUser) ==
  IF selectError # "none" /\ selectError # "PGRST116" THEN "return_null"
  ELSE IF existingUser # NoRow THEN "return_existing"
  ELSE "insert"

\* userState.input_error_count || 0
currentErrorCount(userState) ==
  IF userState.input_error_count = NULL_COUNT THEN 0 ELSE userState.input_error_count

\* the handler without the session_closed test
sessionClosedCheck_Never(userState) == FALSE

\* if (sessionClosed) continue
sessionClosedCheck(userState) == userState.session_closed

\* a trigger test that accepts every text holding the phrase
isTrigger_Includes(text, phrase) ==
  \E i \in 1..Len(text) : text[i] = Head(phrase)

\* text === '<phrase>'
isTrigger(text, phrase) == text = phrase

\* The handler from "const { extra_credits, session_closed } = userState"
\* to its next await: the name of the step it waits in ("loop": continue).
Dispatch(text, userState) ==
  LET extraCredits == userState.extra_credits
      data == extractUserData(text)
  IN  IF sessionClosedCheck(userState) THEN "loop"
      ELSE IF isTrigger(text, PRESENT_TXT) /\ extraCredits = PROFILE_DONE THEN "credit_update"
      ELSE IF extraCredits = TAROT_WAIT THEN "gpt_tarot"
      ELSE IF isTrigger(text, GUIDE_TXT) /\ extraCredits = OFFER_SHOWN THEN "reply_final"
      ELSE IF isTrigger(text, START_TXT) /\ extraCredits = NEED_INPUT THEN "loop"
      ELSE IF hasAllInput(data) /\ extraCredits = NEED_INPUT THEN "gpt_analysis"
      ELSE IF extraCredits = NEED_INPUT /\ ~hasAllInput(data) /\ text # START_TXT
        THEN IF hasNumberFormat(text) /\ currentErrorCount(userState) < MAX_INPUT_ERRORS
             THEN "count_update"
             ELSE "loop"
      ELSE "loop"

\* const missingFields = []; if (!data.name) ... push
missingFields(data) ==
  (IF data.name = NULL THEN {"name"} ELSE {})
    \cup (IF data.birthdate = NULL THEN {"birthdate"} ELSE {})
    \cup (IF data.gender = NULL THEN {"gender"} ELSE {})

\* callGPT: the attempt loop over the outcomes of the attempts (TRUE: the
\* POST succeeded); the text it returns and the attempts it made
RECURSIVE gptLoop(_, _)
gptLoop(outs, attempt) ==
  IF outs[attempt] THEN [text |-> GENERATED, attempts |-> attempt]
  ELSE IF attempt = maxRetries THEN [text |-> GPT_ERROR_MSG, attempts |-> attempt]
  ELSE gptLoop(outs, attempt + 1)

callGPT(outs) == gptLoop(outs, 1)

GptOutcomes == [1..maxRetries -> BOOLEAN]

(***************************************************************************)
(* The event loop of the handler.                                          *)
(***************************************************************************)
\* a handler that answers 500 when the handling of an event has thrown
sendStatus_ErrorOnThrow(threw) == IF threw THEN 500 ELSE 200

\* res.sendStatus(200) after the try and its catch (threw: the catch ran)
sendStatus(threw) == 200

\* for (const ev of events): the next event, up to the first await of its
\* handling; after the last event, res.sendStatus(200).  Reading
\* ev.message.type of a malformed event throws: the catch block runs.
LoopHead(r) ==
  /\ req[r].pc = "loop"
  /\ LET i == req[r].idx + 1
     IN  IF i > Len(req[r].body)
         THEN /\ req' = [req EXCEPT ![r] = [IdleReq EXCEPT !.status = sendStatus(FALSE)]]
              /\ UNCHANGED <<rateLimit, passed>>
         ELSE IF req[r].body[i].type = "malformed"
         THEN /\ req' = [req EXCEPT ![r].idx = i, ![r].ev = FreshEvent,
                                    ![r].pc = "catch_reply"]
              /\ UNCHANGED <<rateLimit, passed>>
         ELSE IF req[r].body[i].type # "text"
         THEN /\ req' = [req EXCEPT ![r].idx = i, ![r].ev = FreshEvent]
              /\ UNCHANGED <<rateLimit, passed>>
         ELSE LET rl == checkRateLimit(rateLimit, now)
                  e  == [FreshEvent EXCEPT !.text = Trim(req[r].body[i].text),
                                           !.arrivedClosed = SessionClosedNow]
              IN  /\ rateLimit' = rl.list
                  /\ passed' = IF rl.ok THEN Append(passed, now) ELSE passed
                  /\ req' = [req EXCEPT ![r].idx = i, ![r].ev = e,
                                        ![r].pc = IF rl.ok THEN "select" ELSE "reply_rate"]
  /\ UNCHANGED <<rows, now, delivered, genProfile, genTarot,
                 guidanceSent, gptCall>>

\* getOrCreateUserState: the select returns
SelectDone(r) ==
  /\ req[r].pc = "select"
  /\ \E failed \in BOOLEAN :
       LET res  == SingleResult(failed)
           what == AfterSelect(res.error, res.data)
       IN  req' = [req EXCEPT
             ![r].ev.selErr = res.error,
             ![r].ev.userState = res.data,
             ![r].ev.readClosed = (what = "return_existing" /\ res.data.session_closed),
             ![r].pc = IF what = "return_null" THEN "reply_syserr"
                       ELSE IF what = "insert" THEN "insert"
                       ELSE Dispatch(req[r].ev.text, res.data)]
  /\ UNCHANGED <<rows, rateLimit, passed, now, delivered, genProfile, genTarot,
                 guidanceSent, gptCall>>

\* getOrCreateUserState: the insert returns
InsertDone(r) ==
  /\ req[r].pc = "insert"
  /\ \E failed \in BOOLEAN :
       IF failed
       THEN /\ req' = [req EXCEPT ![r].ev.inserts = @ + 1, ![r].pc = "reply_syserr"]
            /\ UNCHANGED rows
       ELSE /\ rows' = Append(rows, NewRow)
            /\ req' = [req EXCEPT ![r].ev.inserts = @ + 1,
                                  ![r].ev.userState = NewRow,
                                  ![r].pc = Dispatch(req[r].ev.text, NewRow)]
  /\ UNCHANGED <<rateLimit, passed, now, delivered, genProfile, genTarot,
                 guidanceSent, gptCall>>

\* an update ... .eq('line_user_id', userId) returns: every row of the user
\* is changed (changed: the rows after the change), or on an error none
UpdateStep(r, changed, nextPc) ==
  /\ \E failed \in BOOLEAN : rows' = IF failed THEN rows ELSE changed
  /\ req' = [req EXCEPT ![r].ev.updates = @ + 1, ![r].pc = nextPc]
  /\ UNCHANGED <<rateLimit, passed, now, delivered, genProfile, genTarot,
                 guidanceSent, gptCall>>

\* The action types of the quick-reply items each reply is called with: one
\* message action after a reading, two uri actions and a clipboard action
\* with the closing message, none for replyText.  replyWithQuickReply puts
\* the items it is given into the message as they are.
quickReplyItems(kind) ==
  IF kind \in {"analysis", "tarot"} THEN <<"message">>
  ELSE IF kind = "closing" THEN <<"uri", "uri", "clipboard">>
  ELSE <<>>

\* a reply that is sent again when it throws
onReplyThrow_Retry(pc) == pc

\* a handler that swallows the throw of a reading's reply and goes on to
\* the update that follows it
onReplyThrow_Swallow(pc) ==
  IF pc = "reply_tarot" THEN "tarot_update"
  ELSE IF pc = "reply_analysis" THEN "analysis_update"
  ELSE "catch_reply"

\* replyText and replyWithQuickReply log and rethrow: the throw leaves the
\* event loop for the catch block of the handler
onReplyThrow(pc) == "catch_reply"

\* replyText / replyWithQuickReply returns or throws.  A reply token is
\* single use: the platform refuses a token it has already accepted.
\* A throw leaves the event loop for the catch block of the handler, which
\* awaits notifyError and then replies with events[0].replyToken.
ReplyStep(r, kind, missing, okPc) ==
  /\ \E ok \in BOOLEAN :
       /\ ok => req[r].idx \notin req[r].used
       /\ req' = [req EXCEPT
            ![r].ev.sent = Append(@, [kind |-> kind, token |-> req[r].idx,
                                      ok |-> ok, missing |-> missing,
                                      items |-> quickReplyItems(kind)]),
            ![r].used = IF ok THEN @ \cup {req[r].idx} ELSE @,
            ![r].pc = IF ok THEN okPc ELSE onReplyThrow(req[r].pc)]
       /\ guidanceSent' = IF ok /\ kind = "missing_fields" /\ guidanceSent <= MAX_INPUT_ERRORS
                          THEN guidanceSent + 1 ELSE guidanceSent
  /\ UNCHANGED <<rows, rateLimit, passed, now, delivered, genProfile, genTarot, gptCall>>

\* rate limited: replyText(replyToken, 'please wait'); continue
ReplyRateDone(r) ==
  /\ req[r].pc = "reply_rate"
  /\ ReplyStep(r, "rate_limit", {}, "loop")

\* if (!userState) replyText(replyToken, 'system error'); continue
ReplySysErrDone(r) ==
  /\ req[r].pc = "reply_syserr"
  /\ ReplyStep(r, "system_error", {}, "loop")

\* the special-present branch: update extra_credits to 0.5; continue
CreditUpdateDone(r) ==
  /\ req[r].pc = "credit_update"
  /\ UpdateStep(r, [i \in 1..Len(rows) |-> creditUpdate(rows[i])], "loop")

\* The prompt builders.  The content of a message is a text: "date" is the
\* sentence with today's date and season, "inst" a stretch of the fixed
\* instructions, "info" the fixed words of the user message, "unknown" the
\* fallback of a field left out; the user's own characters are spliced in
\* where the template literals have ${d.name}, ${concern} and so on.
buildDateSystemPrompt == [role |-> "system", content |-> <<"date">>]

OrUnknown(v) == IF v = NULL THEN <<"unknown">> ELSE v

SELF_ANALYSIS_MESSAGES(d) ==
  << buildDateSystemPrompt,
     [role |-> "system", content |-> <<"inst">> \o d.name \o <<"inst">>],
     [role |-> "user",
      content |-> <<"info">> \o d.name \o d.birthdate \o OrUnknown(d.birthtime)
                    \o OrUnknown(d.gender) \o OrUnknown(d.mbti)] >>

TAROT_MESSAGES(concern) ==
  << buildDateSystemPrompt,
     [role |-> "system", content |-> <<"inst">> \o concern \o <<"inst">>],
     [role |-> "user", content |-> <<"info">> \o concern] >>

\* the tarot branch: showTypingIndicator (a failure is swallowed) and callGPT
GptTarotDone(r) ==
  /\ req[r].pc = "gpt_tarot"
  /\ genTarot' = IF genTarot < 2 THEN genTarot + 1 ELSE genTarot
  /\ \E outs \in GptOutcomes :
       req' = [req EXCEPT ![r].ev.messages = TAROT_MESSAGES(req[r].ev.text),
                          ![r].ev.ans = callGPT(outs).text, ![r].ev.gpt = @ + 1,
                          ![r].pc = "reply_tarot"]
  /\ UNCHANGED <<rows, rateLimit, passed, now, delivered, genProfile,
                 guidanceSent, gptCall>>

ReplyTarotDone(r) ==
  /\ req[r].pc = "reply_tarot"
  /\ ReplyStep(r, "tarot", {}, "tarot_update")

TarotUpdateDone(r) ==
  /\ req[r].pc = "tarot_update"
  /\ UpdateStep(r, [i \in 1..Len(rows) |->
                        tarotUpdate(rows[i], req[r].ev.text, req[r].ev.ans)], "loop")

\* the closing branch: replyWithQuickReply(FOLLOWUP_MSG ...), then the update
ReplyFinalDone(r) ==
  /\ req[r].pc = "reply_final"
  /\ ReplyStep(r, "closing", {}, "final_update")

FinalUpdateDone(r) ==
  /\ req[r].pc = "final_update"
  /\ UpdateStep(r, [i \in 1..Len(rows) |-> finalUpdate(rows[i])], "loop")

\* the self-analysis branch: showTypingIndicator and callGPT
GptAnalysisDone(r) ==
  /\ req[r].pc = "gpt_analysis"
  /\ genProfile' = IF genProfile < 2 THEN genProfile + 1 ELSE genProfile
  /\ \E outs \in GptOutcomes :
       req' = [req EXCEPT ![r].ev.messages =
                            SELF_ANALYSIS_MESSAGES(extractUserData(req[r].ev.text)),
                          ![r].ev.ans = callGPT(outs).text, ![r].ev.gpt = @ + 1,
                          ![r].pc = "reply_analysis"]
  /\ UNCHANGED <<rows, rateLimit, passed, now, delivered, genTarot,
                 guidanceSent, gptCall>>

ReplyAnalysisDone(r) ==
  /\ req[r].pc = "reply_analysis"
  /\ ReplyStep(r, "analysis", {}, "analysis_update")

AnalysisUpdateDone(r) ==
  /\ req[r].pc = "analysis_update"
  /\ UpdateStep(r, [i \in 1..Len(rows) |->
                        analysisUpdate(rows[i], extractUserData(req[r].ev.text),
                                       req[r].ev.ans)], "loop")

\* the incomplete-form branch: the error count update (its error is not
\* looked at), then the guidance reply
CountUpdateDone(r) ==
  /\ req[r].pc = "count_update"
  /\ UpdateStep(r, [i \in 1..Len(rows) |->
                        countUpdate(rows[i], currentErrorCount(req[r].ev.userState))],
                "reply_missing")

ReplyMissingDone(r) ==
  /\ req[r].pc = "reply_missing"
  /\ ReplyStep(r, "missing_fields",
               missingFields(extractUserData(req[r].ev.text)), "loop")

\* catch (error): replyText(events[0].replyToken, 'system error') inside
\* its own try, then res.sendStatus(200); the other events are not handled
CatchReplyDone(r) ==
  /\ req[r].pc = "catch_reply"
  /\ \E ok \in BOOLEAN :
       /\ ok => 1 \notin req[r].used
       /\ req' = [req EXCEPT
            ![r].ev.sent = Append(@, [kind |-> "system_error", token |-> 1,
                                      ok |-> ok, missing |-> {},
                                      items |-> quickReplyItems("system_error")]),
            ![r].used = {},
            ![r].body = <<>>,
            ![r].idx = 0,
            ![r].status = sendStatus(TRUE),
            ![r].pc = "idle"]
  /\ UNCHANGED <<rows, rateLimit, passed, now, delivered, genProfile, genTarot,
                 guidanceSent, gptCall>>

\* Every event of a behaviour of Spec arrives within one rate-limit window
\* (the clock stands still); SpecClock lets the clock advance as well.
Next ==
  \/ \E r \in Req : Receive(r)
  \/ \E r \in Req : \E r2 \in Req : Redeliver(r, r2)
  \/ \E r \in Req : LoopHead(r)
  \/ \E r \in Req : SelectDone(r)
  \/ \E r \in Req : InsertDone(r)
  \/ \E r \in Req : ReplyRateDone(r)
  \/ \E r \in Req : ReplySysErrDone(r)
  \/ \E r \in Req : CreditUpdateDone(r)
  \/ \E r \in Req : GptTarotDone(r)
  \/ \E r \in Req : ReplyTarotDone(r)
  \/ \E r \in Req : TarotUpdateDone(r)
  \/ \E r \in Req : ReplyFinalDone(r)
  \/ \E r \in Req : FinalUpdateDone(r)
  \/ \E r \in Req : GptAnalysisDone(r)
  \/ \E r \in Req : ReplyAnalysisDone(r)
  \/ \E r \in Req : AnalysisUpdateDone(r)
  \/ \E r \in Req : CountUpdateDone(r)
  \/ \E r \in Req : ReplyMissingDone(r)
  \/ \E r \in Req : CatchReplyDone(r)

Spec == Init /\ [][Next]_vars

NextClock == Next \/ Tick

SpecClock == Init /\ [][NextClock]_vars

\* One request at a time: the events of the user are delivered and handled
\* one after the other, by one invocation of the handler.
NextSeq ==
  \/ Receive(1)
  \/ LoopHead(1)
  \/ SelectDone(1)
  \/ InsertDone(1)
  \/ ReplyRateDone(1)
  \/ ReplySysErrDone(1)
  \/ CreditUpdateDone(1)
  \/ GptTarotDone(1)
  \/ ReplyTarotDone(1)
  \/ TarotUpdateDone(1)
  \/ ReplyFinalDone(1)
  \/ FinalUpdateDone(1)
  \/ GptAnalysisDone(1)
  \/ ReplyAnalysisDone(1)
  \/ AnalysisUpdateDone(1)
  \/ CountUpdateDone(1)
  \/ ReplyMissingDone(1)
  \/ CatchReplyDone(1)

SpecSeq == Init /\ [][NextSeq]_vars

\* one request at a time while the clock advances
NextRate == NextSeq \/ Tick

SpecRate == Init /\ [][NextRate]_vars

(***************************************************************************)
(* Bodies of several events, malformed events among them, one request at a *)
(* time.  Every awaited call of the handler returns or throws (the axios   *)
(* calls carry timeouts), so a step of the handler that can be taken is    *)
(* taken: weak fairness of the handler's steps.  The platform is under no  *)
(* obligation to send.                                                     *)
(***************************************************************************)
BodyEventChoices ==
  {[k |-> "malformed", text |-> <<>>], [k |-> "nontext", text |-> <<>>]}
    \cup {[k |-> "text", text |-> t] :
            t \in {CompleteForm, <<"m1", "c", "nl", "m2", "c">>, <<"sp", "P">>, <<"G">>}}

BodyReceive ==
  \E signature \in {"hash", "forged"},
     ch \in UNION {[1..n -> BodyEventChoices] : n \in 1..MaxBodyLen} :
       /\ delivered + Len(ch) <= MaxBodyEvents
       /\ Arrive(1, signature, ch)

HandlerStep ==
  \/ LoopHead(1)
  \/ SelectDone(1)
  \/ InsertDone(1)
  \/ ReplyRateDone(1)
  \/ ReplySysErrDone(1)
  \/ CreditUpdateDone(1)
  \/ GptTarotDone(1)
  \/ ReplyTarotDone(1)
  \/ TarotUpdateDone(1)
  \/ ReplyFinalDone(1)
  \/ FinalUpdateDone(1)
  \/ GptAnalysisDone(1)
  \/ ReplyAnalysisDone(1)
  \/ AnalysisUpdateDone(1)
  \/ CountUpdateDone(1)
  \/ ReplyMissingDone(1)
  \/ CatchReplyDone(1)

NextBody == BodyReceive \/ HandlerStep

SpecBody == Init /\ [][NextBody]_vars /\ WF_vars(HandlerStep)

(***************************************************************************)
(* callGPT, attempt by attempt.  The outcomes of the POSTs it may make are  *)
(* the input: "ok" (an answer with choices[0].message.content), "timeout"  *)
(* (no answer within the 30 s of the axios timeout), "http_error" (a 4xx   *)
(* or 5xx answer) and "bad_body" (an answer without choices, on which      *)
(* data.choices[0] throws inside the try).  Every awaited call returns or  *)
(* throws, so a step that can be taken is taken (weak fairness).           *)
(***************************************************************************)
AttemptOutcomes == {"ok", "timeout", "http_error", "bad_body"}

InitGpt ==
  /\ rows = <<>>
  /\ rateLimit = <<>>
  /\ passed = <<>>
  /\ now = 0
  /\ req = [r \in Req |-> IdleReq]
  /\ delivered = 0
  /\ genProfile = 0
  /\ genTarot = 0
  /\ guidanceSent = 0
  /\ \E outs \in [1..maxRetries -> AttemptOutcomes] :
       gptCall = [pc |-> "post", attempt |-> 1, outs |-> outs, posts |-> 0,
                  notified |-> FALSE, result |-> NULL]

\* const delay = Math.min(1000 * Math.pow(2, attempt - 1), 5000)
delay(attempt) ==
  IF 1000 * 2 ^ (attempt - 1) < 5000 THEN 1000 * 2 ^ (attempt - 1) ELSE 5000

\* a catch block that gives up at the first failed attempt
gptAfterFailure_GiveUpFirst(attempt) == "notify"

\* catch (e): if (attempt === maxRetries) notifyError and return the
\* apology, else wait and go round the loop
gptAfterFailure(attempt) == IF attempt = maxRetries THEN "notify" ELSE "backoff"

\* await axios.post(...) of the current attempt returns or throws
GptPostDone ==
  /\ gptCall.pc = "post"
  /\ gptCall' =
       IF gptCall.outs[gptCall.attempt] = "ok"
       THEN [gptCall EXCEPT !.posts = @ + 1, !.pc = "returned", !.result = GENERATED]
       ELSE [gptCall EXCEPT !.posts = @ + 1, !.pc = gptAfterFailure(gptCall.attempt)]
  /\ UNCHANGED <<rows, rateLimit, passed, now, req, delivered, genProfile, genTarot,
                 guidanceSent>>

\* await new Promise(resolve => setTimeout(resolve, delay)); attempt++
GptBackoffDone ==
  /\ gptCall.pc = "backoff"
  /\ now' = now + delay(gptCall.attempt)
  /\ gptCall' = [gptCall EXCEPT !.attempt = @ + 1, !.pc = "post"]
  /\ UNCHANGED <<rows, rateLimit, passed, req, delivered, genProfile, genTarot,
                 guidanceSent>>

\* await notifyError(...) returns (it throws nothing); return the apology
GptNotifyDone ==
  /\ gptCall.pc = "notify"
  /\ gptCall' = [gptCall EXCEPT !.notified = TRUE, !.pc = "returned",
                                !.result = GPT_ERROR_MSG]
  /\ UNCHANGED <<rows, rateLimit, passed, now, req, delivered, genProfile, genTarot,
                 guidanceSent>>

(***************************************************************************)
(* Incomplete forms handled concurrently: a user whose row is at           *)
(* extra_credits 2 sends labeled forms that lack a required field, the     *)
(* requests are handled in both slots, and every call succeeds (the select *)
(* returns the row, the update is applied, the reply is accepted).         *)
(***************************************************************************)
InitRace ==
  /\ rows = <<RowNeedInput>>
  /\ rateLimit = <<>>
  /\ passed = <<>>
  /\ now = 0
  /\ req = [r \in Req |-> IdleReq]
  /\ delivered = 0
  /\ genProfile = 0
  /\ genTarot = 0
  /\ guidanceSent = 0
  /\ gptCall = NoCall

IncompleteForms == {<<"m1", "c", "nl", "m2", "c">>, <<"m1", "c">>}

RaceReceive(r) ==
  /\ \A q \in Req : q < r => req[q].pc # "idle"
  /\ delivered < MaxEvents
  /\ \E t \in IncompleteForms : Arrive(r, "hash", <<[k |-> "text", text |-> t]>>)

NextRace ==
  \/ \E r \in Req : RaceReceive(r)
  \/ \E r \in Req : LoopHead(r)
  \/ \E r \in Req : SelectDone(r) /\ req'[r].ev.selErr = "none"
  \/ \E r \in Req :
       /\ CountUpdateDone(r)
       /\ rows' = [i \in 1..Len(rows) |->
                     countUpdate(rows[i], currentErrorCount(req[r].ev.userState))]
  \/ \E r \in Req : ReplyMissingDone(r) /\ req'[r].pc # "catch_reply"

SpecRace == InitRace /\ [][NextRace]_vars

(***************************************************************************)
(* extractUserData on its own: the handler of slot 1 is at                 *)
(* "const data = extractUserData(text)" with a text of at most MaxTextLen  *)
(* characters over the first two markers, the colon, the line break, other *)
(* white space, an ordinary character and a label word.                    *)
(***************************************************************************)
ExtractAlphabet == {"m1", "m2", "col", "nl", "sp", "c", "lbl"}

ExtractTexts == UNION {[1..n -> ExtractAlphabet] : n \in 0..MaxTextLen}

InitExtract ==
  /\ rows = <<RowNeedInput>>
  /\ rateLimit = <<>>
  /\ passed = <<>>
  /\ now = 0
  /\ delivered = 0
  /\ genProfile = 0
  /\ genTarot = 0
  /\ guidanceSent = 0
  /\ gptCall = NoCall
  /\ \E t \in ExtractTexts :
       req = [r \in Req |->
                IF r = 1
                THEN [IdleReq EXCEPT !.pc = "extract", !.signature = "hash",
                                     !.ev = [FreshEvent EXCEPT !.text = t,
                                                               !.userState = RowNeedInput]]
                ELSE IdleReq]

\* const data = extractUserData(text)
ExtractDone ==
  /\ req[1].pc = "extract"
  /\ req' = [req EXCEPT ![1].ev.data = extractUserData(req[1].ev.text),
                        ![1].pc = "extracted"]
  /\ UNCHANGED <<rows, rateLimit, passed, now, delivered, genProfile, genTarot,
                 guidanceSent, gptCall>>

NextExtract == ExtractDone

SpecExtract == InitExtract /\ [][NextExtract]_vars

NextGpt == GptPostDone \/ GptBackoffDone \/ GptNotifyDone

SpecGpt == InitGpt /\ [][NextGpt]_vars /\ WF_vars(NextGpt)

(***************************************************************************)
(* The full flow: a new user, one request at a time with one message each, *)
(* every external call succeeding (the select and the insert return no     *)
(* error other than "no rows", callGPT gets an answer within its attempts, *)
(* every reply is accepted, every update is applied).  The user sends a    *)
(* complete form, the present phrase, a concern (any text), the guidance   *)
(* phrase, and then any events.  A request that has arrived is handled to  *)
(* its end and the user goes on sending (weak fairness).                   *)
(***************************************************************************)
InitFlow ==
  /\ rows = <<>>
  /\ rateLimit = <<>>
  /\ passed = <<>>
  /\ now = 0
  /\ req = [r \in Req |-> IdleReq]
  /\ delivered = 0
  /\ genProfile = 0
  /\ genTarot = 0
  /\ guidanceSent = 0
  /\ gptCall = NoCall

\* the events the user may send as event number k
FlowChoices(k) ==
  IF k = 1 THEN {[k |-> "text", text |-> CompleteForm]}
  ELSE IF k = 2 THEN {[k |-> "text", text |-> <<"sp", "P">>]}
  ELSE IF k = 3 THEN {[k |-> "text", text |-> t] : t \in RawTexts}
  ELSE IF k = 4 THEN {[k |-> "text", text |-> GUIDE_TXT]}
  ELSE EventChoices

FlowReceive ==
  /\ delivered < MaxFlowEvents
  /\ \E ch \in FlowChoices(delivered + 1) : Arrive(1, "hash", <<ch>>)

NextFlow ==
  \/ FlowReceive
  \/ LoopHead(1)
  \/ SelectDone(1) /\ req'[1].ev.selErr # "OTHER"
  \/ InsertDone(1) /\ req'[1].pc # "reply_syserr"
  \/ GptAnalysisDone(1) /\ req'[1].ev.ans = GENERATED
  \/ ReplyAnalysisDone(1) /\ req'[1].pc # "catch_reply"
  \/ AnalysisUpdateDone(1) /\ rows' # rows
  \/ CreditUpdateDone(1) /\ rows' # rows
  \/ GptTarotDone(1) /\ req'[1].ev.ans = GENERATED
  \/ ReplyTarotDone(1) /\ req'[1].pc # "catch_reply"
  \/ TarotUpdateDone(1) /\ rows' # rows
  \/ ReplyFinalDone(1) /\ req'[1].pc # "catch_reply"
  \/ FinalUpdateDone(1) /\ rows' # rows

SpecFlow == InitFlow /\ [][NextFlow]_vars /\ WF_vars(NextFlow)

(***************************************************************************)
(* Properties.                                                             *)
(***************************************************************************)
\* the position of a row in the order AwaitingProfile < ProfileComplete <
\* AwaitingConcern < OfferShown < Closed, read off its extra_credits
PhaseRank(row) ==
  IF row.extra_credits = NEED_INPUT THEN 0
  ELSE IF row.extra_credits = PROFILE_DONE THEN 1
  ELSE IF row.extra_credits = TAROT_WAIT THEN 2
  ELSE IF row.extra_credits = OFFER_SHOWN THEN 3
  ELSE 4

\* slot r is handling an event (its fields of req[r].ev describe that event)
Handling(r) == req[r].pc # "idle" /\ req[r].idx >= 1

\* slot r has read the row in AwaitingProfile with a complete profile in
\* the text and is between that read and the end of its update
InAnalysis(r) ==
  req[r].pc \in {"gpt_analysis", "reply_analysis", "analysis_update"}

\* C1 (phase monotonicity): no step of any interleaving of handler
\* invocations moves the stored phase of a row backward in the order
\* AwaitingProfile < ProfileComplete < AwaitingConcern < OfferShown < Closed.
C1_PhaseMonotone ==
  [][\A i \in 1..Len(rows) : PhaseRank(rows'[i]) >= PhaseRank(rows[i])]_vars

\* the handling of the event has called the generator, sent or updated
Committed(e) == e.updates + e.gpt + Len(e.sent) > 0

\* C2 (concurrency safety): of two invocations that both read the row in
\* AwaitingProfile and both carry a complete profile, at most one makes a
\* generation call, sends or updates.
C2_OneCommits ==
  \A r1 \in Req : \A r2 \in Req :
    (r1 # r2 /\ InAnalysis(r1) /\ InAnalysis(r2))
      => ~(Committed(req[r1].ev) /\ Committed(req[r2].ev))

\* C3 (idempotency): of two deliveries of the event with the same message
\* id, at most one writes the session, calls the generator or sends.
C3_SecondDeliveryDropped ==
  \A r1 \in Req : \A r2 \in Req :
    (r1 # r2 /\ Handling(r1) /\ Handling(r2) /\ Ev(r1).id = Ev(r2).id)
      => ~(HadEffect(req[r1].ev) /\ HadEffect(req[r2].ev))

\* C4 as stated (terminal immutability): an event that arrives while the
\* stored session is closed is answered with nothing and writes nothing.
C4_ArrivedClosedSilent ==
  \A r \in Req :
    req[r].ev.arrivedClosed
      => req[r].ev.sent = <<>> /\ req[r].ev.inserts = 0 /\ req[r].ev.updates = 0

\* C4 (terminal immutability): an event that passes the rate limit and
\* whose session read returns a row with session_closed = true is answered
\* with nothing, writes nothing and calls no generator, whatever its text.
C4_ReadClosedSilent ==
  \A r \in Req :
    req[r].ev.readClosed
      => /\ req[r].ev.sent = <<>>
         /\ req[r].ev.inserts = 0
         /\ req[r].ev.updates = 0
         /\ req[r].ev.gpt = 0
         /\ req[r].pc \in {"loop", "idle"}

\* the closing phrase arrives for a row that is closed but whose
\* extra_credits is 0.3, and its handling has ended
C4_Witness ==
  \E r \in Req :
    /\ req[r].ev.readClosed
    /\ req[r].pc = "loop"
    /\ req[r].ev.text = GUIDE_TXT
    /\ req[r].ev.userState.extra_credits = OFFER_SHOWN

\* C5 (generation failure isolation): when every attempt of the profile
\* generation fails, the handler updates nothing, and no row holds the
\* apology as its analysis result or has left AwaitingProfile with it.
C5_FailureIsolated ==
  /\ \A r \in Req :
       (req[r].ev.ans = GPT_ERROR_MSG /\ req[r].ev.userState # NoRow
          /\ req[r].ev.userState.extra_credits = NEED_INPUT)
         => req[r].ev.updates = 0
  /\ \A i \in 1..Len(rows) : rows[i].self_analysis_result # GPT_ERROR_MSG

C7_OneRow == Len(rows) <= 1

\* C8 (storage read failure): when the session select fails with an error
\* other than "no rows found", the handler inserts nothing, updates nothing,
\* calls no generator, and what it sends is the system-error message, which
\* it has sent once it is past the reply.
C8_ReadFailure ==
  \A r \in Req :
    req[r].ev.selErr = "OTHER"
      => /\ req[r].ev.inserts = 0
         /\ req[r].ev.updates = 0
         /\ req[r].ev.gpt = 0
         /\ req[r].pc \in {"reply_syserr", "loop", "catch_reply", "idle"}
         /\ req[r].pc # "reply_syserr" => Len(req[r].ev.sent) >= 1
         /\ \A k \in 1..Len(req[r].ev.sent) :
              req[r].ev.sent[k].kind = "system_error"

\* the select failed and the system-error message went out
C8_Witness ==
  \E r \in Req :
    /\ req[r].ev.selErr = "OTHER"
    /\ Len(req[r].ev.sent) = 1
    /\ req[r].ev.sent[1].kind = "system_error"
    /\ req[r].ev.sent[1].ok

\* C9 (atomic advance): a row at ProfileComplete or later holds the profile
\* fields and the generated analysis; a row at OfferShown or later holds the
\* concern and the generated tarot reading.
C9_AdvanceWithResult ==
  \A i \in 1..Len(rows) :
    /\ PhaseRank(rows[i]) >= 1
         => /\ rows[i].name # NULL
            /\ rows[i].birthdate # NULL
            /\ rows[i].gender # NULL
            /\ rows[i].self_analysis_result = GENERATED
    /\ PhaseRank(rows[i]) >= 3
         => /\ rows[i].tarot_concern # NULL
            /\ rows[i].tarot_result = GENERATED

\* C10 (paid step not re-triggered): over the events of one user, handled
\* one after the other, callGPT is invoked at most once for the profile
\* reading and at most once for the tarot reading.
C10_GeneratedOnce == genProfile <= 1 /\ genTarot <= 1

\* slot r has got the row of the user (read or created) and has dispatched
\* on it; req[r].ev.userState is that row
Dispatched(r) == req[r].ev.userState # NoRow

\* slot r dispatched on an open row with this extra_credits
ReadPhase(r, credits) ==
  /\ Dispatched(r)
  /\ ~req[r].ev.userState.session_closed
  /\ req[r].ev.userState.extra_credits = credits

\* the handling of the event of slot r has ended, or stands at its end,
\* without a send, an update or a generation call
Silent(r) ==
  /\ req[r].ev.sent = <<>>
  /\ req[r].ev.updates = 0
  /\ req[r].ev.gpt = 0
  /\ req[r].pc \in {"loop", "idle"}

\* the text of slot r holds a marker and lacks a required field
LabeledIncomplete(r) ==
  /\ hasNumberFormat(req[r].ev.text)
  /\ ~hasAllInput(extractUserData(req[r].ev.text))

EventEnded(r) == req[r].pc \in {"loop", "idle"} /\ Dispatched(r)

\* C12 (extraction partiality): when the handling of an event dispatched on
\* a row in AwaitingProfile with input_error_count below 2, with a text that
\* holds a marker and lacks a required field, has ended, the handler has
\* made one guidance send that lists exactly the missing required fields,
\* no generation call, and the row is still in AwaitingProfile with its
\* input_error_count one above the count that was read.
C12_GuidanceAndCount ==
  \A r \in Req :
    (/\ EventEnded(r)
     /\ ReadPhase(r, NEED_INPUT)
     /\ currentErrorCount(req[r].ev.userState) < 2
     /\ LabeledIncomplete(r))
      => /\ Len(req[r].ev.sent) >= 1
         /\ req[r].ev.sent[1].kind = "missing_fields"
         /\ req[r].ev.sent[1].missing
              = {f \in {"name", "birthdate", "gender"} :
                   extractUserData(req[r].ev.text)[f] = NULL}
         /\ \A k \in 2..Len(req[r].ev.sent) :
              req[r].ev.sent[k].kind # "missing_fields"
         /\ req[r].ev.gpt = 0
         /\ Len(rows) = 1
         /\ rows[1].extra_credits = NEED_INPUT
         /\ rows[1].input_error_count
              = currentErrorCount(req[r].ev.userState) + 1

UnlockCase(r) == ReadPhase(r, PROFILE_DONE) /\ req[r].ev.text = PRESENT_TXT

C15_ConcernTaken ==
  \A r \in Req :
    (EventEnded(r) /\ ReadPhase(r, TAROT_WAIT) /\ req[r].ev.text # <<>>)
      => /\ req[r].ev.gpt = 1
         /\ Len(req[r].ev.sent) >= 1
         /\ req[r].ev.sent[1].kind = "tarot"
         /\ req[r].ev.updates = 1

\* slot r dispatched on a row in AwaitingProfile with a text that holds none
\* of the markers
UnlabeledCase(r) ==
  /\ ReadPhase(r, NEED_INPUT)
  /\ \A i \in 1..Len(req[r].ev.text) :
       req[r].ev.text[i] \notin {"m1", "m2", "m3", "m4", "m5"}

FlowAt(credits, gp, gt) ==
  /\ Len(rows) = 1
  /\ rows[1].extra_credits = credits
  /\ ~rows[1].session_closed
  /\ genProfile = gp
  /\ genTarot = gt

\* the table holds one closed row with extra_credits 0, after one profile
\* and one tarot generation
FlowClosed ==
  /\ Len(rows) = 1
  /\ rows[1].extra_credits = 0
  /\ rows[1].session_closed
  /\ genProfile = 1
  /\ genTarot = 1

C18_ClosedRowImmutable ==
  [][\A i \in 1..Len(rows) : rows[i].session_closed => rows'[i] = rows[i]]_vars

\* C19 (captured data is never rewritten): no step changes the profile
\* fields or the analysis of a row that holds an analysis, nor the concern
\* or the tarot reading of a row that holds a tarot reading.
C19_CapturedKept ==
  [][\A i \in 1..Len(rows) :
       /\ rows[i].self_analysis_result # NULL
            => /\ rows'[i].name = rows[i].name
               /\ rows'[i].birthdate = rows[i].birthdate
               /\ rows'[i].birthtime = rows[i].birthtime
               /\ rows'[i].gender = rows[i].gender
               /\ rows'[i].mbti = rows[i].mbti
               /\ rows'[i].self_analysis_result = rows[i].self_analysis_result
       /\ rows[i].tarot_result # NULL
            => /\ rows'[i].tarot_concern = rows[i].tarot_concern
               /\ rows'[i].tarot_result = rows[i].tarot_result]_vars

PostsOk == [i \in 1..maxRetries |-> gptCall.outs[i] = "ok"]

C23_SendRetried ==
  \A r \in Req :
    LET sent == req[r].ev.sent
    IN  (req[r].pc = "idle" /\ sent # <<>> /\ ~sent[1].ok)
          => \E j \in 2..Len(sent) :
               sent[j].kind = sent[1].kind /\ sent[j].token = sent[1].token

\* C24: every quick-reply item of every message the platform has accepted
\* has action type message or uri.
C24_QuickReplyFiltered ==
  \A r \in Req :
    \A i \in 1..Len(req[r].ev.sent) :
      req[r].ev.sent[i].ok
        => \A k \in 1..Len(req[r].ev.sent[i].items) :
             req[r].ev.sent[i].items[k] \in {"message", "uri"}

\* C25: when the reply of a branch that also updates the row (profile
\* reading, bonus reading, closing message, missing-fields guidance) is
\* handed to the platform, the update of that event has already returned.
C25_PersistBeforeSend ==
  \A r \in Req :
    \A i \in 1..Len(req[r].ev.sent) :
      req[r].ev.sent[i].kind \in {"analysis", "tarot", "closing", "missing_fields"}
        => req[r].ev.updates >= 1

\* the lines of a text: the pieces between its line breaks
RECURSIVE SplitLines(_)
SplitLines(text) ==
  LET e == IndexFrom(text, "nl", 1)
  IN  IF e > Len(text) THEN <<text>>
      ELSE <<SubSeq(text, 1, e - 1)>> \o SplitLines(SubSeq(text, e + 1, Len(text)))

\* what follows the marker of a line and the colon after it, if there is one
AfterMarker(line) ==
  IF Len(line) >= 2 /\ line[2] = "col" THEN SubSeq(line, 3, Len(line)) ELSE Tail(line)

\* the trimmed value of a line
LineValue(line) == Trim(AfterMarker(line))

\* a message made of lines that each start with a marker of their own,
\* an optional colon after it and a value that is not empty
FormOfLines(text) ==
  LET lines == SplitLines(text)
  IN  /\ \A i \in 1..Len(lines) :
           /\ lines[i] # <<>>
           /\ IsMarker(lines[i][1])
           /\ LineValue(lines[i]) # <<>>
           /\ \A k \in 1..Len(AfterMarker(lines[i])) : ~IsMarker(AfterMarker(lines[i])[k])
      /\ \A i \in 1..Len(lines), j \in 1..Len(lines) :
           i # j => lines[i][1] # lines[j][1]

MarkerOf ==
  [name |-> "m1", birthdate |-> "m2", birthtime |-> "m3", mbti |-> "m4", gender |-> "m5"]

Extracted(r) == req[r].pc = "extracted"

\* C26 as stated: for a message of such lines each field is the trimmed
\* value of the line of its marker, and null when no line has its marker.
C26_LineValues ==
  \A r \in Req :
    (Extracted(r) /\ FormOfLines(req[r].ev.text))
      => LET lines == SplitLines(req[r].ev.text)
         IN  \A f \in DOMAIN MarkerOf :
               IF \E i \in 1..Len(lines) : lines[i][1] = MarkerOf[f]
               THEN \E i \in 1..Len(lines) :
                      /\ lines[i][1] = MarkerOf[f]
                      /\ req[r].ev.data[f] = LineValue(lines[i])
               ELSE req[r].ev.data[f] = NULL

\* the value of a line as extractUserData returns it: without a label word
\* at its start (and the colon and white space after the label), and null
\* when nothing is left
LabelFree(value) ==
  IF StripLabel[value] = <<>> THEN NULL ELSE StripLabel[value]

\* C26, amended: for a message of such lines each field is the trimmed
\* value of the line of its marker with a label word at its start removed
\* (null when the value was nothing but the label), and null when no line
\* has its marker; a record of the five fields is returned for every text.
C26_LineValuesLabelFree ==
  \A r \in Req :
    Extracted(r)
      => /\ DOMAIN req[r].ev.data = DOMAIN MarkerOf
         /\ FormOfLines(req[r].ev.text)
              => LET lines == SplitLines(req[r].ev.text)
                 IN  \A f \in DOMAIN MarkerOf :
                       IF \E i \in 1..Len(lines) : lines[i][1] = MarkerOf[f]
                       THEN \E i \in 1..Len(lines) :
                              /\ lines[i][1] = MarkerOf[f]
                              /\ req[r].ev.data[f] = LabelFree(LineValue(lines[i]))
                       ELSE req[r].ev.data[f] = NULL

\* a form has been extracted whose line holds the marker, a colon and a
\* label word with its colon before the name
C26_Witness ==
  /\ Extracted(1)
  /\ FormOfLines(req[1].ev.text)
  /\ req[1].ev.text = <<"m1", "col", "lbl", "col", "c">>
  /\ req[1].ev.data.name = <<"c">>
  /\ req[1].ev.data.birthdate = NULL

\* first position at or after from that holds a marker, or Len(text)+1
RECURSIVE NextMarker(_, _)
NextMarker(text, from) ==
  IF from > Len(text) \/ IsMarker(text[from]) THEN from ELSE NextMarker(text, from + 1)

\* the text between the first occurrence of a marker and the next marker or
\* the end of the text, without the colon after the marker
Segment(text, marker) ==
  LET p == IndexFrom(text, marker, 1)
      seg == SubSeq(text, p + 1, NextMarker(text, p + 1) - 1)
  IN  IF seg # <<>> /\ Head(seg) = "col" THEN Tail(seg) ELSE seg

\* C27: for every text, a field whose marker occurs is the text between the
\* marker and the next marker or the end of the text (trimmed, label
\* removed), and no returned value holds a marker.
C27_StopsAtNextMarker ==
  \A r \in Req :
    Extracted(r)
      => \A f \in DOMAIN MarkerOf :
           /\ req[r].ev.data[f] # NULL
                => \A k \in 1..Len(req[r].ev.data[f]) : ~IsMarker(req[r].ev.data[f][k])
           /\ IndexFrom(req[r].ev.text, MarkerOf[f], 1) <= Len(req[r].ev.text)
                => req[r].ev.data[f] = LabelFree(Trim(Segment(req[r].ev.text, MarkerOf[f])))

\* the system-role messages of a generation request
SystemPart(messages) == SelectSeq(messages, LAMBDA m : m.role = "system")

\* the characters a user can put into a text
UserChars == Token \ {"nl", "sp"}

\* C28: two requests being handled in the same generation branch were given
\* the same system-role messages, whatever their users wrote, and no
\* system-role message holds a character of the user's text.
C28_SystemPartFixed ==
  \A r1 \in Req, r2 \in Req :
    (/\ req[r1].ev.gpt = 1
     /\ req[r2].ev.gpt = 1
     /\ req[r1].ev.userState.extra_credits = req[r2].ev.userState.extra_credits)
      => /\ SystemPart(req[r1].ev.messages) = SystemPart(req[r2].ev.messages)
         /\ \A i \in 1..Len(SystemPart(req[r1].ev.messages)) :
              \A k \in 1..Len(SystemPart(req[r1].ev.messages)[i].content) :
                SystemPart(req[r1].ev.messages)[i].content[k] \notin UserChars

\* the event being handled in slot r was rejected by checkRateLimit
Rejected(r) ==
  \/ req[r].pc = "reply_rate"
  \/ req[r].ev.sent # <<>> /\ req[r].ev.sent[1].kind = "rate_limit"

\* the please-wait replies of the event of slot r
WaitReplies(r) ==
  {i \in 1..Len(req[r].ev.sent) : req[r].ev.sent[i].kind = "rate_limit"}

\* the passes within the window of RATE_LIMIT_WINDOW ms that starts at pass i
PassesFrom(i) ==
  {j \in 1..Len(passed) :
     passed[i] <= passed[j] /\ passed[j] < passed[i] + RATE_LIMIT_WINDOW}

\* C29: no window of 60000 ms holds more than 10 passes; a rejected event
\* has read no row, written nothing and generated nothing, and has been
\* given one please-wait reply once that reply has been issued; the step
\* that rejects an event leaves the user's time stamps as they were.
C29_RateLimit ==
  /\ [](\A i \in 1..Len(passed) : Cardinality(PassesFrom(i)) <= RATE_LIMIT_MAX)
  /\ [](\A r \in Req :
          Rejected(r)
            => /\ req[r].ev.userState = NoRow
               /\ req[r].ev.selErr = "none"
               /\ req[r].ev.inserts = 0
               /\ req[r].ev.updates = 0
               /\ req[r].ev.gpt = 0
               /\ Cardinality(WaitReplies(r)) = IF req[r].pc = "reply_rate" THEN 0 ELSE 1)
  /\ [][\A r \in Req :
          (req[r].pc = "loop" /\ req'[r].pc = "reply_rate")
            => rateLimit' = rateLimit /\ passed' = passed]_vars

\* half a window after the tenth pass an event has been rejected and given
\* the please-wait reply
C29_Witness ==
  /\ now = TickMs
  /\ Len(passed) = RATE_LIMIT_MAX
  /\ req[1].pc = "loop"
  /\ Len(req[1].ev.sent) = 1
  /\ req[1].ev.sent[1].kind = "rate_limit"
  /\ req[1].ev.sent[1].ok

\* C30: whatever the order in which the steps of concurrent requests of
\* the user are taken, the platform has accepted at most 2 missing-fields
\* guidance messages for the user and the stored input_error_count is at
\* most 2.
C30_GuidanceBounded ==
  /\ guidanceSent <= MAX_INPUT_ERRORS
  /\ \A i \in 1..Len(rows) : rows[i].input_error_count <= MAX_INPUT_ERRORS

\* a reading (profile or bonus) whose reply threw in the event of slot r
UndeliveredReading(r) ==
  \E i \in 1..Len(req[r].ev.sent) :
    /\ req[r].ev.sent[i].kind \in {"analysis", "tarot"}
    /\ ~req[r].ev.sent[i].ok

\* C31: when the reply that carries a generated reading (profile or bonus
\* step) throws, the event issues no update of the row: with one request
\* handled at a time the row keeps the extra_credits and the stored results
\* it had when the event read it.
C31_UndeliveredNotPersisted ==
  \A r \in Req :
    UndeliveredReading(r) =>
      /\ req[r].ev.updates = 0
      /\ \A j \in 1..Len(rows) :
           /\ rows[j].extra_credits = req[r].ev.userState.extra_credits
           /\ rows[j].self_analysis_result = req[r].ev.userState.self_analysis_result
           /\ rows[j].tarot_result = req[r].ev.userState.tarot_result
           /\ rows[j].tarot_concern = req[r].ev.userState.tarot_concern

\* a request that generated a reading, whose reply threw, and that has
\* run through the catch block to its acknowledgment
C31_Witness ==
  \E r \in Req :
    /\ UndeliveredReading(r)
    /\ req[r].ev.gpt = 1
    /\ req[r].ev.ans # NULL
    /\ req[r].pc = "idle"
    /\ req[r].status = 200

\* C32: a request ends only when every event of its body has been taken
\* up by the loop, and a system-error reply sent by the catch block carries
\* the reply token of the event whose handling threw.
C32_FailureIsolated ==
  [][\A r \in Req :
       (req[r].pc # "idle" /\ req'[r].pc = "idle") =>
         /\ req[r].idx >= Len(req[r].body)
         /\ req[r].pc = "catch_reply" =>
              req'[r].ev.sent[Len(req'[r].ev.sent)].token = req[r].idx]_vars

====
